---- MODULE Spec2Model ----
(***************************************************************************)
(* A model of app.py, the document-store backend of the personal diary:    *)
(* the request handlers over the user and entry collections, and the text  *)
(* analysis helpers they call.                                             *)
(*                                                                         *)
(* Texts are TLA+ strings, read as Python str values: Len, SubSeq and \o   *)
(* are len(), slicing and +.  A compound score is VADER's round(x, 4),     *)
(* kept as an integer number of ten-thousandths.                           *)
(***************************************************************************)
EXTENDS Integers, Sequences, FiniteSets, Bags, TLC

VARIABLES
    \* the connection (app.py:25), the two collections in their natural
    \* order, the next ObjectId and the day
    client, users, entries, next_id, today,
    \* the handlers that are between two calls of the store
    pending,
    \* the handler that took the last step, its response (None until it
    \* answers) and the texts it gave to sia.polarity_scores
    op, response, scorer_calls,
    \* history: the entries inserted since the last delete_many
    added,
    \* the analysis helpers' input (bodies: the sentence bodies a text was
    \* written from) and output
    text, bodies, compound, counts, stage, category, intensity, emotions,
    highlights, mental_patterns, strengths, suggestions, summary

store_vars == <<client, users, entries, next_id, today>>
request_vars == <<pending, op, response, scorer_calls, added>>
analysis_vars ==
    <<text, bodies, compound, counts, stage, category, intensity, emotions,
      highlights, mental_patterns, strengths, suggestions, summary>>
vars == <<store_vars, request_vars, analysis_vars>>

\* Python's None, where a string may stand; no document (find_one's None);
\* no response yet
None == "None"
NoDocument == [none |-> TRUE]
NoResponse == [status |-> 0, body |-> None]

(***************************************************************************)
(* Python str operations                                                   *)
(***************************************************************************)
CharAt(s, i) == SubSeq(s, i, i)

UpperCase == "ABCDEFGHIJKLMNOPQRSTUVWXYZ"
LowerCase == "abcdefghijklmnopqrstuvwxyz"

LowerMap ==
    [c \in {CharAt(UpperCase, i) : i \in 1..Len(UpperCase)} |->
        CharAt(LowerCase, CHOOSE i \in 1..Len(UpperCase) : CharAt(UpperCase, i) = c)]

LowerChar(c) == IF c \in DOMAIN LowerMap THEN LowerMap[c] ELSE c

RECURSIVE PyLower(_)
\* str.lower(), a character at a time (the two halves, to keep the
\* evaluation shallow)
PyLower(s) ==
    IF Len(s) = 0 THEN ""
    ELSE IF Len(s) = 1 THEN LowerChar(s)
    ELSE LET h == Len(s) \div 2
         IN  PyLower(SubSeq(s, 1, h)) \o PyLower(SubSeq(s, h + 1, Len(s)))

\* keyword in text
PyIn(keyword, s) ==
    \E i \in 1..(Len(s) - Len(keyword) + 1) :
        SubSeq(s, i, i + Len(keyword) - 1) = keyword

RECURSIVE CountFrom(_, _, _)
CountFrom(s, sub, i) ==
    IF i + Len(sub) - 1 > Len(s) THEN 0
    ELSE IF SubSeq(s, i, i + Len(sub) - 1) = sub
         THEN 1 + CountFrom(s, sub, i + Len(sub))
         ELSE CountFrom(s, sub, i + 1)

\* str.count(sub): the non-overlapping occurrences, left to right
PyCount(s, sub) == CountFrom(s, sub, 1)

WhiteSpace == {" ", "\t", "\n", "\r", "\f"}

RECURSIVE LStrip(_)
LStrip(s) ==
    IF s # "" /\ Head(s) \in WhiteSpace THEN LStrip(Tail(s)) ELSE s

RECURSIVE RStrip(_)
RStrip(s) ==
    IF s # "" /\ CharAt(s, Len(s)) \in WhiteSpace
    THEN RStrip(SubSeq(s, 1, Len(s) - 1))
    ELSE s

\* str.strip()
PyStrip(s) == RStrip(LStrip(s))

RECURSIVE JoinFrom(_, _, _)
JoinFrom(sep, parts, i) ==
    IF i > Len(parts) THEN ""
    ELSE IF i = Len(parts) THEN parts[i]
    ELSE parts[i] \o sep \o JoinFrom(sep, parts, i + 1)

\* sep.join(parts)
PyJoin(sep, parts) == JoinFrom(sep, parts, 1)

\* lst[:n] and lst[n:]
SliceTo(lst, n) == SubSeq(lst, 1, IF n < Len(lst) THEN n ELSE Len(lst))
SliceFrom(lst, n) == SubSeq(lst, n + 1, Len(lst))

\* round(n / d) for n >= 0, d > 0: Python rounds an exact half to the even
\* integer.  For the counts of get_custom_emotion (n = 100 * count, d <= 49)
\* the float (count / total) * 100 rounds as the exact quotient does.
PyRound(n, d) ==
    LET q == n \div d
        r == n % d
    IN  IF 2 * r > d \/ (2 * r = d /\ q % 2 = 1) THEN q + 1 ELSE q

Range(f) == {f[i] : i \in DOMAIN f}
NoDuplicates(lst) == \A i, j \in DOMAIN lst : lst[i] = lst[j] => i = j

RECURSIVE SelectIn(_, _)
\* the elements of lst that are in S, in lst's order
SelectIn(lst, S) ==
    IF lst = <<>> THEN <<>>
    ELSE IF Head(lst) \in S THEN <<Head(lst)>> \o SelectIn(Tail(lst), S)
    ELSE SelectIn(Tail(lst), S)

(***************************************************************************)
(* Sentiment category and intensity (app.py:454-469)                       *)
(***************************************************************************)
CompoundScale == 10000

\* as get_sentiment_category, with the thresholds themselves left Neutral
get_sentiment_category_strict(c) ==
    IF c * 100 > 5 * CompoundScale THEN "Positive"
    ELSE IF c * 100 < -5 * CompoundScale THEN "Negative"
    ELSE "Neutral"

get_sentiment_category(c) ==
    IF c * 100 >= 5 * CompoundScale THEN "Positive"
    ELSE IF c * 100 <= -5 * CompoundScale THEN "Negative"
    ELSE "Neutral"

Abs(x) == IF x < 0 THEN -x ELSE x

get_sentiment_intensity(c) ==
    LET abs_compound == Abs(c)
    IN  IF abs_compound * 10 >= 5 * CompoundScale THEN "Strong"
        ELSE IF abs_compound * 10 >= 1 * CompoundScale THEN "Moderate"
        ELSE "Mild"

(***************************************************************************)
(* Highlights (app.py:471-478)                                             *)
(***************************************************************************)
Terminators == {".", "!", "?"}

IsTerminator(s, i) == CharAt(s, i) \in Terminators

\* the piece of s that starts at i and runs to the next terminator or the end
PieceAt(s, i) ==
    LET j == CHOOSE j \in i..Len(s) :
                 /\ \A k \in i..j : ~IsTerminator(s, k)
                 /\ j = Len(s) \/ IsTerminator(s, j + 1)
    IN  SubSeq(s, i, j)

RECURSIVE PiecesFrom(_, _)
PiecesFrom(s, starts) ==
    IF starts = {} THEN <<>>
    ELSE LET i == CHOOSE i \in starts : \A j \in starts : i <= j
         IN  <<PieceAt(s, i)>> \o PiecesFrom(s, starts \ {i})

\* re.split(r'[.!?]+', text): the pieces between the maximal runs of
\* terminators, with an empty piece before a leading run and after a
\* trailing one
re_split(s) ==
    LET starts == {i \in 1..Len(s) :
                      ~IsTerminator(s, i) /\ (i = 1 \/ IsTerminator(s, i - 1))}
        first == IF Len(s) = 0 \/ IsTerminator(s, 1) THEN <<"">> ELSE <<>>
        last == IF Len(s) > 0 /\ IsTerminator(s, Len(s)) THEN <<"">> ELSE <<>>
    IN  first \o PiecesFrom(s, starts) \o last

RECURSIVE CollectHighlightsFrom10(_, _)
\* as CollectHighlights, keeping the segments of length 10 too
CollectHighlightsFrom10(sentences, i) ==
    IF i > Len(sentences) THEN <<>>
    ELSE LET sentence == PyStrip(sentences[i])
         IN  IF Len(sentence) >= 10
             THEN <<sentence>> \o CollectHighlightsFrom10(sentences, i + 1)
             ELSE CollectHighlightsFrom10(sentences, i + 1)

RECURSIVE CollectHighlights(_, _)
\* the loop of app.py:474-477
CollectHighlights(sentences, i) ==
    IF i > Len(sentences) THEN <<>>
    ELSE LET sentence == PyStrip(sentences[i])
         IN  IF Len(sentence) > 10
             THEN <<sentence>> \o CollectHighlights(sentences, i + 1)
             ELSE CollectHighlights(sentences, i + 1)

extract_highlights(t) ==
    LET sentences == re_split(t)
        hl == CollectHighlights(sentences, 1)
    IN  IF Len(hl) > 7 THEN SliceTo(hl, 7)
        ELSE IF Len(hl) < 3 THEN SliceFrom(hl, 3)
        ELSE hl

(***************************************************************************)
(* Mental patterns and strengths (app.py:480-536)                          *)
(***************************************************************************)

stress_keywords ==
    <<"stress", "stressed", "pressure", "overwhelm", "anxious", "anxiety">>

overthinking_keywords ==
    <<"think", "thinking", "thought", "wonder", "wondering", "contemplate">>

motivation_keywords ==
    <<"motivat", "inspir", "excit", "enthusias", "eager", "drive">>

avoidance_keywords ==
    <<"avoid", "procrastin", "delay", "postpone">>

self_criticism_keywords ==
    <<"should have", "could have", "would have", "mistake", "wrong",
      "fail">>

confidence_keywords ==
    <<"confident", "proud", "accomplish", "success", "achiev">>

relationship_keywords ==
    <<"friend", "family", "relationship", "partner", "love", "alone">>

fatigue_keywords ==
    <<"tired", "exhaust", "fatigue", "sleepy", "drain">>

productivity_keywords ==
    <<"productiv", "efficien", "focus", "concentrat", "work">>

\* any(keyword in text_lower for keyword in keywords)
AnyKeyword(keywords, text_lower) ==
    \E i \in DOMAIN keywords : PyIn(keywords[i], text_lower)

\* if cond: lst.append(tag)
AppendIf(lst, cond, tag) == IF cond THEN Append(lst, tag) ELSE lst

\* as identify_mental_patterns, with the Motivation check moved before the
\* Overthinking check
identify_mental_patterns_reordered(t) ==
    LET text_lower == PyLower(t)
        p1 == AppendIf(<<>>, AnyKeyword(stress_keywords, text_lower), "Stress")
        p2 == AppendIf(p1, AnyKeyword(motivation_keywords, text_lower), "Motivation")
        p3 == AppendIf(p2, PyCount(text_lower, "think") > 3
                           \/ AnyKeyword(overthinking_keywords, text_lower),
                       "Overthinking")
        p4 == AppendIf(p3, AnyKeyword(avoidance_keywords, text_lower), "Avoidance")
        p5 == AppendIf(p4, AnyKeyword(self_criticism_keywords, text_lower),
                       "Self-criticism")
        p6 == AppendIf(p5, AnyKeyword(confidence_keywords, text_lower), "Confidence")
        p7 == AppendIf(p6, AnyKeyword(relationship_keywords, text_lower),
                       "Relationship concerns")
        p8 == AppendIf(p7, AnyKeyword(fatigue_keywords, text_lower), "Fatigue")
        p9 == AppendIf(p8, AnyKeyword(productivity_keywords, text_lower),
                       "Productivity")
    IN  p9

\* as identify_mental_patterns, with both halves of the overthinking test
\* required
identify_mental_patterns_frequent(t) ==
    LET text_lower == PyLower(t)
        p1 == AppendIf(<<>>, AnyKeyword(stress_keywords, text_lower), "Stress")
        p2 == AppendIf(p1, PyCount(text_lower, "think") > 3
                           /\ AnyKeyword(overthinking_keywords, text_lower),
                       "Overthinking")
        p3 == AppendIf(p2, AnyKeyword(motivation_keywords, text_lower), "Motivation")
        p4 == AppendIf(p3, AnyKeyword(avoidance_keywords, text_lower), "Avoidance")
        p5 == AppendIf(p4, AnyKeyword(self_criticism_keywords, text_lower),
                       "Self-criticism")
        p6 == AppendIf(p5, AnyKeyword(confidence_keywords, text_lower), "Confidence")
        p7 == AppendIf(p6, AnyKeyword(relationship_keywords, text_lower),
                       "Relationship concerns")
        p8 == AppendIf(p7, AnyKeyword(fatigue_keywords, text_lower), "Fatigue")
        p9 == AppendIf(p8, AnyKeyword(productivity_keywords, text_lower),
                       "Productivity")
    IN  p9

identify_mental_patterns(t) ==
    LET text_lower == PyLower(t)
        p1 == AppendIf(<<>>, AnyKeyword(stress_keywords, text_lower), "Stress")
        p2 == AppendIf(p1, PyCount(text_lower, "think") > 3
                           \/ AnyKeyword(overthinking_keywords, text_lower),
                       "Overthinking")
        p3 == AppendIf(p2, AnyKeyword(motivation_keywords, text_lower), "Motivation")
        p4 == AppendIf(p3, AnyKeyword(avoidance_keywords, text_lower), "Avoidance")
        p5 == AppendIf(p4, AnyKeyword(self_criticism_keywords, text_lower),
                       "Self-criticism")
        p6 == AppendIf(p5, AnyKeyword(confidence_keywords, text_lower), "Confidence")
        p7 == AppendIf(p6, AnyKeyword(relationship_keywords, text_lower),
                       "Relationship concerns")
        p8 == AppendIf(p7, AnyKeyword(fatigue_keywords, text_lower), "Fatigue")
        p9 == AppendIf(p8, AnyKeyword(productivity_keywords, text_lower),
                       "Productivity")
    IN  p9


effort_keywords ==
    <<"try", "attempt", "work", "effort", "strive">>

honesty_keywords ==
    <<"honest", "truth", "admit", "confess">>

resilience_keywords ==
    <<"persever", "persist", "resilien", "bounc", "recover">>

discipline_keywords ==
    <<"disciplin", "routine", "habit", "schedule", "plan">>

responsibility_keywords ==
    <<"responsib", "duty", "obligat", "accountab">>

empathy_keywords ==
    <<"empath", "understand", "feel for", "compassion">>

self_awareness_keywords ==
    <<"realize", "recognize", "aware", "understand myself">>

identify_strengths(t) ==
    LET text_lower == PyLower(t)
        s1 == AppendIf(<<>>, AnyKeyword(effort_keywords, text_lower), "Effort")
        s2 == AppendIf(s1, AnyKeyword(honesty_keywords, text_lower), "Honesty")
        s3 == AppendIf(s2, AnyKeyword(resilience_keywords, text_lower), "Resilience")
        s4 == AppendIf(s3, AnyKeyword(discipline_keywords, text_lower), "Discipline")
        s5 == AppendIf(s4, AnyKeyword(responsibility_keywords, text_lower),
                       "Responsibility")
        s6 == AppendIf(s5, AnyKeyword(empathy_keywords, text_lower), "Empathy")
        s7 == AppendIf(s6, AnyKeyword(self_awareness_keywords, text_lower),
                       "Self-awareness")
    IN  s7

(***************************************************************************)
(* Emotion distribution (app.py:577-597)                                   *)
(***************************************************************************)
\* the keys of the emotions dict, in insertion order (app.py:578)
emotion_keys == <<"Happy", "Angry", "Surprise", "Sad", "Fear">>


happy_keywords ==
    <<"happy", "joy", "glad", "pleased", "delighted", "cheerful",
      "content", "satisfied", "excited", "love", "enjoy", "fun",
      "celebrate">>

angry_keywords ==
    <<"angry", "mad", "furious", "annoyed", "frustrated", "irritated",
      "hate", "dislike", "rage">>

surprise_keywords ==
    <<"surprise", "amazed", "astonished", "shocked", "stunned", "startled",
      "unexpected", "incredible">>

sad_keywords ==
    <<"sad", "unhappy", "depressed", "gloomy", "melancholy", "down",
      "blue", "upset", "disappointed", "lonely">>

fear_keywords ==
    <<"fear", "afraid", "scared", "frightened", "anxious", "worried",
      "nervous", "panic", "dread">>

\* sum(1 for word in keywords if word in text_lower)
KeywordCount(keywords, text_lower) ==
    Cardinality({i \in DOMAIN keywords : PyIn(keywords[i], text_lower)})

\* as keyword_counts, without the case folding
keyword_counts_cased(t) ==
    [Happy |-> KeywordCount(happy_keywords, t),
     Angry |-> KeywordCount(angry_keywords, t),
     Surprise |-> KeywordCount(surprise_keywords, t),
     Sad |-> KeywordCount(sad_keywords, t),
     Fear |-> KeywordCount(fear_keywords, t)]

\* app.py:585-589: the five counts of a text
keyword_counts(t) ==
    LET text_lower == PyLower(t)
    IN  [Happy |-> KeywordCount(happy_keywords, text_lower),
         Angry |-> KeywordCount(angry_keywords, text_lower),
         Surprise |-> KeywordCount(surprise_keywords, text_lower),
         Sad |-> KeywordCount(sad_keywords, text_lower),
         Fear |-> KeywordCount(fear_keywords, text_lower)]

\* as emotion_percent, truncating instead of rounding
emotion_percent_truncated(count, total_emotion_words) ==
    (100 * count) \div total_emotion_words

\* round((count / total_emotion_words) * 100)
emotion_percent(count, total_emotion_words) ==
    PyRound(100 * count, total_emotion_words)

\* app.py:590-597: the distribution of five counts
emotion_distribution(c) ==
    LET total_emotion_words == c.Happy + c.Angry + c.Surprise + c.Sad + c.Fear
    IN  IF total_emotion_words > 0
        THEN [k \in Range(emotion_keys) |->
                 emotion_percent(c[k], total_emotion_words)]
        ELSE [k \in Range(emotion_keys) |-> 0]

get_custom_emotion(t) == emotion_distribution(keyword_counts(t))

(***************************************************************************)
(* Suggestions and summary (app.py:538-575)                                *)
(***************************************************************************)

ToughTime ==
    "It seems like you're going through a tough time. Remember that difficult moments are temporary, and you've overcome challenges before."

PositiveHeadspace ==
    "You're in a positive headspace right now - that's wonderful! Consider what's contributing to this positivity and how you can cultivate more of it."

BalancedState ==
    "You're in a balanced state of mind. This stability can be a great foundation for growth and self-reflection."

HappySentence ==
    "Your joy is contagious! Share this positive energy with someone you care about today."

SadSentence ==
    "It's okay to feel sad sometimes. Be gentle with yourself and engage in activities that bring you comfort."

AngerSentence ==
    "Anger is a natural emotion. Try channeling this energy into something constructive, like exercise or creative expression."

FearSentence ==
    "Fear can be protective, but don't let it hold you back. Take small steps toward what scares you."

SurpriseSentence ==
    "Life's surprises can be challenging to process. Give yourself time to adjust to new information or changes."

StressSentence ==
    "You're experiencing stress. Try some deep breathing exercises or a short walk to help center yourself."

OverthinkingSentence ==
    "It seems like your mind is busy. Consider journaling your thoughts to help sort through them, or try mindfulness to stay present."

MotivationSentence ==
    "Your motivation is a powerful force. Channel it toward a goal you've been putting off."

AvoidanceSentence ==
    "Avoidance is a common coping mechanism. Try breaking overwhelming tasks into smaller, manageable steps."

GenericSentence ==
    "You're doing great. Keep taking care of yourself and your emotional well-being."


tone_sentences == {ToughTime, PositiveHeadspace, BalancedState}

\* max(emotions, key=emotions.get): the keys are visited in the dict's order
\* and a later key replaces the best one only when its value is larger
RECURSIVE MaxKeyFrom(_, _, _)
MaxKeyFrom(e, i, best) ==
    IF i > Len(emotion_keys) THEN best
    ELSE MaxKeyFrom(e, i + 1,
                    IF e[emotion_keys[i]] > e[best] THEN emotion_keys[i] ELSE best)

dominant_key(e) == MaxKeyFrom(e, 2, emotion_keys[1])

\* as generate_suggestions, with the anger branch keyed to the distribution's
\* own key
generate_suggestions_angry(c, e, patterns) ==
    LET tone == IF c * 10 < -3 * CompoundScale THEN <<ToughTime>>
                ELSE IF c * 10 > 3 * CompoundScale THEN <<PositiveHeadspace>>
                ELSE <<BalancedState>>
        dominant_emotion == dominant_key(e)
        emo == IF e[dominant_emotion] > 30
               THEN CASE dominant_emotion = "Happy" -> Append(tone, HappySentence)
                      [] dominant_emotion = "Sad" -> Append(tone, SadSentence)
                      [] dominant_emotion = "Angry" -> Append(tone, AngerSentence)
                      [] dominant_emotion = "Fear" -> Append(tone, FearSentence)
                      [] dominant_emotion = "Surprise" ->
                             Append(tone, SurpriseSentence)
                      [] OTHER -> tone
               ELSE tone
        m1 == AppendIf(emo, "Stress" \in Range(patterns), StressSentence)
        m2 == AppendIf(m1, "Overthinking" \in Range(patterns), OverthinkingSentence)
        m3 == AppendIf(m2, "Motivation" \in Range(patterns), MotivationSentence)
        m4 == AppendIf(m3, "Avoidance" \in Range(patterns), AvoidanceSentence)
    IN  IF m4 # <<>> THEN m4 ELSE <<GenericSentence>>

\* as generate_suggestions, with the tone thresholds themselves counted as
\* tough and positive
generate_suggestions_inclusive(c, e, patterns) ==
    LET tone == IF c * 10 <= -3 * CompoundScale THEN <<ToughTime>>
                ELSE IF c * 10 >= 3 * CompoundScale THEN <<PositiveHeadspace>>
                ELSE <<BalancedState>>
        dominant_emotion == dominant_key(e)
        emo == IF e[dominant_emotion] > 30
               THEN CASE dominant_emotion = "Happy" -> Append(tone, HappySentence)
                      [] dominant_emotion = "Sad" -> Append(tone, SadSentence)
                      [] dominant_emotion = "Anger" -> Append(tone, AngerSentence)
                      [] dominant_emotion = "Fear" -> Append(tone, FearSentence)
                      [] dominant_emotion = "Surprise" ->
                             Append(tone, SurpriseSentence)
                      [] OTHER -> tone
               ELSE tone
        m1 == AppendIf(emo, "Stress" \in Range(patterns), StressSentence)
        m2 == AppendIf(m1, "Overthinking" \in Range(patterns), OverthinkingSentence)
        m3 == AppendIf(m2, "Motivation" \in Range(patterns), MotivationSentence)
        m4 == AppendIf(m3, "Avoidance" \in Range(patterns), AvoidanceSentence)
    IN  IF m4 # <<>> THEN m4 ELSE <<GenericSentence>>

generate_suggestions(c, e, patterns) ==
    LET tone == IF c * 10 < -3 * CompoundScale THEN <<ToughTime>>
                ELSE IF c * 10 > 3 * CompoundScale THEN <<PositiveHeadspace>>
                ELSE <<BalancedState>>
        dominant_emotion == dominant_key(e)
        emo == IF e[dominant_emotion] > 30
               THEN CASE dominant_emotion = "Happy" -> Append(tone, HappySentence)
                      [] dominant_emotion = "Sad" -> Append(tone, SadSentence)
                      [] dominant_emotion = "Anger" -> Append(tone, AngerSentence)
                      [] dominant_emotion = "Fear" -> Append(tone, FearSentence)
                      [] dominant_emotion = "Surprise" ->
                             Append(tone, SurpriseSentence)
                      [] OTHER -> tone
               ELSE tone
        m1 == AppendIf(emo, "Stress" \in Range(patterns), StressSentence)
        m2 == AppendIf(m1, "Overthinking" \in Range(patterns), OverthinkingSentence)
        m3 == AppendIf(m2, "Motivation" \in Range(patterns), MotivationSentence)
        m4 == AppendIf(m3, "Avoidance" \in Range(patterns), AvoidanceSentence)
    IN  IF m4 # <<>> THEN m4 ELSE <<GenericSentence>>

\* as generate_summary, with a percentage of exactly 50 taken as dominating
generate_summary_from_half(c, e) ==
    LET sentiment_word == get_sentiment_category(c)
        dominant_emotion == dominant_key(e)
        emotion_percentage == e[dominant_emotion]
    IN  IF emotion_percentage >= 50
        THEN "A " \o PyLower(sentiment_word) \o " entry dominated by "
             \o PyLower(dominant_emotion) \o " emotions."
        ELSE "A generally " \o PyLower(sentiment_word)
             \o " entry with mixed emotional tones."

generate_summary(c, e) ==
    LET sentiment_word == get_sentiment_category(c)
        dominant_emotion == dominant_key(e)
        emotion_percentage == e[dominant_emotion]
    IN  IF emotion_percentage > 50
        THEN "A " \o PyLower(sentiment_word) \o " entry dominated by "
             \o PyLower(dominant_emotion) \o " emotions."
        ELSE "A generally " \o PyLower(sentiment_word)
             \o " entry with mixed emotional tones."

(***************************************************************************)
(* The state before any request, and before any analysis                   *)
(***************************************************************************)
StoreInit ==
    /\ client = None
    /\ users = <<>>
    /\ entries = <<>>
    /\ next_id = 1
    /\ today = 0

RequestInit ==
    /\ pending = EmptyBag
    /\ op = None
    /\ response = NoResponse
    /\ scorer_calls = <<>>
    /\ added = <<>>

NoCounts == [k \in Range(emotion_keys) |-> 0]

AnalysisInit ==
    /\ text = ""
    /\ bodies = <<>>
    /\ compound = 0
    /\ counts = NoCounts
    /\ stage = "idle"
    /\ category = None
    /\ intensity = None
    /\ emotions = NoCounts
    /\ highlights = <<>>
    /\ mental_patterns = <<>>
    /\ strengths = <<>>
    /\ suggestions = <<>>
    /\ summary = None

(***************************************************************************)
(* SpecScore: the category and intensity of every compound score           *)
(***************************************************************************)
InitScore ==
    /\ StoreInit /\ RequestInit
    /\ compound \in (-CompoundScale)..CompoundScale
    /\ stage = "input"
    /\ text = "" /\ bodies = <<>> /\ counts = NoCounts /\ category = None /\ intensity = None
    /\ emotions = NoCounts /\ highlights = <<>> /\ mental_patterns = <<>>
    /\ strengths = <<>> /\ suggestions = <<>> /\ summary = None

\* app.py:245-246
Categorize ==
    /\ stage = "input"
    /\ category' = get_sentiment_category(compound)
    /\ intensity' = get_sentiment_intensity(compound)
    /\ stage' = "done"
    /\ UNCHANGED <<store_vars, request_vars, text, bodies, compound, counts, emotions,
                   highlights, mental_patterns, strengths, suggestions, summary>>

NextScore == Categorize

SpecScore == InitScore /\ [][NextScore]_vars

(***************************************************************************)
(* SpecEmotion: the distribution of every combination of keyword counts    *)
(***************************************************************************)
InitEmotion ==
    /\ StoreInit /\ RequestInit
    /\ counts \in [Happy : 0..Len(happy_keywords),
                   Angry : 0..Len(angry_keywords),
                   Surprise : 0..Len(surprise_keywords),
                   Sad : 0..Len(sad_keywords),
                   Fear : 0..Len(fear_keywords)]
    /\ stage = "input"
    /\ text = "" /\ bodies = <<>> /\ compound = 0 /\ category = None /\ intensity = None
    /\ emotions = NoCounts /\ highlights = <<>> /\ mental_patterns = <<>>
    /\ strengths = <<>> /\ suggestions = <<>> /\ summary = None

\* app.py:590-597
Distribute ==
    /\ stage = "input"
    /\ emotions' = emotion_distribution(counts)
    /\ stage' = "done"
    /\ UNCHANGED <<store_vars, request_vars, text, bodies, compound, counts, category,
                   intensity, highlights, mental_patterns, strengths,
                   suggestions, summary>>

NextEmotion == Distribute

SpecEmotion == InitEmotion /\ [][NextEmotion]_vars

(***************************************************************************)
(* SpecHighlights: extract_highlights on texts of up to MaxSentences       *)
(* sentences, each a padded body and a run of terminators                  *)
(***************************************************************************)
MaxSentences == 8

SentenceKinds ==
    {[lead |-> "", body |-> "Good morning", trail |-> "", term |-> "."],
     [lead |-> " ", body |-> "a long day", trail |-> " ", term |-> "!"],
     [lead |-> "\n", body |-> "What a long night", trail |-> " ", term |-> "?!"]}

SentenceText(s) == s.lead \o s.body \o s.trail \o s.term

RECURSIVE Concat(_, _)
Concat(ss, i) ==
    IF i > Len(ss) THEN "" ELSE SentenceText(ss[i]) \o Concat(ss, i + 1)

SentenceLists == UNION {[1..n -> SentenceKinds] : n \in 0..MaxSentences}

InitHighlights ==
    /\ StoreInit /\ RequestInit
    /\ \E ss \in SentenceLists :
          /\ text = Concat(ss, 1)
          /\ bodies = [i \in DOMAIN ss |-> ss[i].body]
    /\ stage = "input"
    /\ compound = 0 /\ counts = NoCounts /\ category = None /\ intensity = None
    /\ emotions = NoCounts /\ highlights = <<>> /\ mental_patterns = <<>>
    /\ strengths = <<>> /\ suggestions = <<>> /\ summary = None

\* app.py:257
Highlight ==
    /\ stage = "input"
    /\ highlights' = extract_highlights(text)
    /\ stage' = "done"
    /\ UNCHANGED <<store_vars, request_vars, text, bodies, compound, counts, category,
                   intensity, emotions, mental_patterns, strengths,
                   suggestions, summary>>

NextHighlights == Highlight

SpecHighlights == InitHighlights /\ [][NextHighlights]_vars

(***************************************************************************)
(* SpecText: the keyword helpers on every text of up to MaxWords words     *)
(***************************************************************************)
MaxWords == 3

Vocabulary ==
    {"Happy", "furious", "shocked", "unhappy", "anxious", "think",
     "Excited", "avoid", "work", "calm"}

Texts == {PyJoin(" ", ws) : ws \in UNION {[1..n -> Vocabulary] : n \in 0..MaxWords}}

InitText ==
    /\ StoreInit /\ RequestInit
    /\ text \in Texts
    /\ stage = "input"
    /\ bodies = <<>> /\ compound = 0 /\ counts = NoCounts
    /\ category = None /\ intensity = None
    /\ emotions = NoCounts /\ highlights = <<>> /\ mental_patterns = <<>>
    /\ strengths = <<>> /\ suggestions = <<>> /\ summary = None

\* app.py:249, 258-259
Tag ==
    /\ stage = "input"
    /\ counts' = keyword_counts(text)
    /\ emotions' = emotion_distribution(counts')
    /\ mental_patterns' = identify_mental_patterns(text)
    /\ strengths' = identify_strengths(text)
    /\ stage' = "done"
    /\ UNCHANGED <<store_vars, request_vars, text, bodies, compound, category,
                   intensity, highlights, suggestions, summary>>

NextText == Tag

SpecText == InitText /\ [][NextText]_vars

(***************************************************************************)
(* SpecAnalysis: the analysis of app.py:244-261 of every such text, with   *)
(* the compound score the scorer gives it                                  *)
(***************************************************************************)
\* scores on both sides of the thresholds of generate_suggestions
CompoundSamples ==
    LET t == (3 * CompoundScale) \div 10
    IN  {0 - CompoundScale, 0 - t - 1, 0 - t, 0, t, t + 1, CompoundScale}

\* app.py:244-261
Analyze ==
    /\ stage = "input"
    /\ counts' = keyword_counts(text)
    /\ emotions' = emotion_distribution(counts')
    /\ highlights' = extract_highlights(text)
    /\ mental_patterns' = identify_mental_patterns(text)
    /\ strengths' = identify_strengths(text)
    /\ \E c \in CompoundSamples :
          /\ compound' = c
          /\ category' = get_sentiment_category(c)
          /\ intensity' = get_sentiment_intensity(c)
          /\ suggestions' = generate_suggestions(c, emotions', mental_patterns')
          /\ summary' = generate_summary(c, emotions')
    /\ stage' = "done"
    /\ UNCHANGED <<store_vars, request_vars, text, bodies>>

NextAnalysis == Analyze

SpecAnalysis == InitText /\ [][NextAnalysis]_vars

(***************************************************************************)
(* SpecAdvice: the suggestions and the summary of app.py:260-261 for the   *)
(* distributions of up to MaxCount keywords of each emotion                *)
(***************************************************************************)
MaxCount == 4

Min(a, b) == IF a < b THEN a ELSE b

\* scores at and on both sides of the thresholds of get_sentiment_category
\* and of generate_suggestions
AdviceScores ==
    LET n == (5 * CompoundScale) \div 100
        t == (3 * CompoundScale) \div 10
    IN  {0 - t - 1, 0 - n, 1 - n, n - 1, n, t + 1}

\* what identify_mental_patterns may have returned
AdvicePatterns == {<<>>, <<"Stress", "Avoidance">>}

InitAdvice ==
    /\ StoreInit /\ RequestInit
    /\ counts \in [Happy : 0..Min(MaxCount, Len(happy_keywords)),
                   Angry : 0..Min(MaxCount, Len(angry_keywords)),
                   Surprise : 0..Min(MaxCount, Len(surprise_keywords)),
                   Sad : 0..Min(MaxCount, Len(sad_keywords)),
                   Fear : 0..Min(MaxCount, Len(fear_keywords))]
    /\ compound \in AdviceScores
    /\ mental_patterns \in AdvicePatterns
    /\ stage = "input"
    /\ text = "" /\ bodies = <<>> /\ category = None /\ intensity = None
    /\ emotions = NoCounts /\ highlights = <<>>
    /\ strengths = <<>> /\ suggestions = <<>> /\ summary = None

\* app.py:245-246, 590-597, 260-261
Advise ==
    /\ stage = "input"
    /\ emotions' = emotion_distribution(counts)
    /\ category' = get_sentiment_category(compound)
    /\ intensity' = get_sentiment_intensity(compound)
    /\ suggestions' = generate_suggestions(compound, emotions', mental_patterns)
    /\ summary' = generate_summary(compound, emotions')
    /\ stage' = "done"
    /\ UNCHANGED <<store_vars, request_vars, text, bodies, compound, counts,
                   highlights, mental_patterns, strengths>>

NextAdvice == Advise

SpecAdvice == InitAdvice /\ [][NextAdvice]_vars

(***************************************************************************)
(* SpecThought: identify_mental_patterns on every text of up to            *)
(* MaxThoughts words about thinking                                        *)
(***************************************************************************)
MaxThoughts == 5

ThoughtWords == {"think", "Wonder", "thin", "calm"}

ThoughtTexts ==
    {PyJoin(" ", ws) : ws \in UNION {[1..n -> ThoughtWords] : n \in 0..MaxThoughts}}

InitThought ==
    /\ StoreInit /\ RequestInit
    /\ text \in ThoughtTexts
    /\ stage = "input"
    /\ bodies = <<>> /\ compound = 0 /\ counts = NoCounts
    /\ category = None /\ intensity = None
    /\ emotions = NoCounts /\ highlights = <<>> /\ mental_patterns = <<>>
    /\ strengths = <<>> /\ suggestions = <<>> /\ summary = None

\* app.py:258
Ponder ==
    /\ stage = "input"
    /\ mental_patterns' = identify_mental_patterns(text)
    /\ stage' = "done"
    /\ UNCHANGED <<store_vars, request_vars, text, bodies, compound, counts,
                   category, intensity, emotions, highlights, strengths,
                   suggestions, summary>>

NextThought == Ponder

SpecThought == InitThought /\ [][NextThought]_vars

(***************************************************************************)
(* The store, as app.py uses it through pymongo                            *)
(***************************************************************************)
\* ObjectIds handed out, and handlers between two store calls at a time
MaxId == 2
MaxPending == 2

\* client = MongoClient(...) of app.py:39, until its ping of app.py:40 returns:
\* the global is bound, and true to app.py:36, before the server has answered
PingSent == "MongoClient, ping sent"

\* ensure_client (app.py:33-46), up to the ping and from it: the client after
\* the step. With no client the request binds a new one and waits for its
\* ping. While a ping is out, the request that sent it sees it succeed and
\* goes on, or sees it fail and unsets the client; any other request finds the
\* global set and goes on with it. A connected client is returned as it is.
ensure_client ==
    IF client = None THEN {PingSent}
    ELSE IF client = PingSent THEN {"MongoClient", None, PingSent}
    ELSE {client}

\* get_collection(name) gave no collection (app.py:54-58): ensure_client
\* returned False, or has not returned yet
NoCollection(c) == c = None \/ (client = None /\ c = PingSent)

\* as insert_one, but writing over the newest document when there is one
insert_one_over_newest(collection, doc, id) ==
    IF collection = <<>> THEN <<[_id |-> id] @@ doc>>
    ELSE [collection EXCEPT ![Len(collection)] = [_id |-> id] @@ doc]

\* collection.insert_one(doc): doc gets the next ObjectId and goes last
insert_one(collection, doc, id) == Append(collection, [_id |-> id] @@ doc)

\* the filter {'$or': [{'username': username}, {'email': email}]}
matches_user(u, username, email) == u.username = username \/ u.email = email

\* collection.find_one({'$or': [...]}): the first match in natural order, or
\* None
find_one(collection, username, email) ==
    IF \E i \in DOMAIN collection : matches_user(collection[i], username, email)
    THEN collection[CHOOSE i \in DOMAIN collection :
             /\ matches_user(collection[i], username, email)
             /\ \A j \in 1..(i - 1) : ~matches_user(collection[j], username, email)]
    ELSE NoDocument

\* collection.delete_many({})
delete_many(collection) == <<>>

RECURSIVE sort_by_id_ascending(_)
\* as sort_by_id_descending, in the other direction
sort_by_id_ascending(docs) ==
    IF docs = <<>> THEN <<>>
    ELSE LET i == CHOOSE i \in DOMAIN docs :
                      \A j \in DOMAIN docs : docs[j]._id >= docs[i]._id
         IN  <<docs[i]>> \o sort_by_id_ascending(
                 SubSeq(docs, 1, i - 1) \o SubSeq(docs, i + 1, Len(docs)))

RECURSIVE sort_by_id_descending(_)
\* cursor.sort('_id', -1)
sort_by_id_descending(docs) ==
    IF docs = <<>> THEN <<>>
    ELSE LET i == CHOOSE i \in DOMAIN docs :
                      \A j \in DOMAIN docs : docs[j]._id <= docs[i]._id
         IN  <<docs[i]>> \o sort_by_id_descending(
                 SubSeq(docs, 1, i - 1) \o SubSeq(docs, i + 1, Len(docs)))

\* the projection {'_id': 0} of the entries
without_id(docs) ==
    [i \in DOMAIN docs |-> [date |-> docs[i].date, entry |-> docs[i].entry]]

\* list(entries_collection.find({}, {'_id': 0}).sort('_id', -1))
find_newest_first(collection) == without_id(sort_by_id_descending(collection))

\* list(entries_collection.find({}, {'_id': 0}))
find_all(collection) == without_id(collection)

(***************************************************************************)
(* Dates: date.strftime("%A, %Y-%m-%d") and its parsing (app.py:206-207,   *)
(* 328-329)                                                                *)
(***************************************************************************)
\* the days the model runs through
Calendar ==
    <<[weekday |-> "Tuesday", iso |-> "2026-11-03"],
      [weekday |-> "Wednesday", iso |-> "2026-11-04"]>>

strftime(day) == Calendar[day + 1].weekday \o ", " \o Calendar[day + 1].iso

\* entry['date'].split(", ")[1]
date_part(date_str) ==
    LET i == CHOOSE i \in 1..Len(date_str) :
                 /\ SubSeq(date_str, i, i + 1) = ", "
                 /\ \A j \in 1..(i - 1) : SubSeq(date_str, j, j + 1) # ", "
    IN  SubSeq(date_str, i + 2, Len(date_str))

\* datetime.strptime(s, "%Y-%m-%d").date(), as the day it is
strptime(s) == (CHOOSE d \in DOMAIN Calendar : Calendar[d].iso = s) - 1

\* the entries dated from `days` days ago to today (app.py:325-333)
dated_within(docs, days) ==
    SelectSeq(docs, LAMBDA e :
        LET entry_date == strptime(date_part(e.date))
        IN  entry_date >= today - days /\ entry_date <= today)

(***************************************************************************)
(* The request handlers (app.py:103-449)                                   *)
(***************************************************************************)
\* what a request may carry: a missing field, an empty one, a value
RegisterForms ==
    {[username |-> "ann", email |-> "ann@example.org", password |-> "secret"],
     [username |-> "bob", email |-> "ann@example.org", password |-> "secret"],
     [username |-> "ann", email |-> "bob@example.org", password |-> "secret"]}
    \cup {[username |-> None, email |-> "ann@example.org", password |-> "secret"],
          [username |-> "ann", email |-> "", password |-> "secret"],
          [username |-> "ann", email |-> "ann@example.org", password |-> None]}
LoginNames == {"", "ann", "bob@example.org"}
LoginPasswords == {"secret", "guess"}
EntryTexts == {None, "", "Happy"}

\* the compound scores sia.polarity_scores may give
ScorerSamples == {0 - (CompoundScale \div 2), 0, CompoundScale \div 2}

\* sia.polarity_scores(t), where the handler passes it on unread
polarity_scores(t) == [scores_of |-> t]

\* not value
Falsy(value) == value \in {None, ""}

Answer(handler, status, body) ==
    /\ op' = handler
    /\ response' = [status |-> status, body |-> body]

\* the answer of a handler that has no collection: 503, or none yet while the
\* request is inside its ping
Unavailable(handler, c) ==
    IF c = None
    THEN Answer(handler, 503, "Database unavailable")
    ELSE /\ op' = "ensure_client"
         /\ response' = NoResponse

\* generate_token(user_id), as the user it names
generate_token(user_id) == <<"token", user_id>>

\* app.py:103-138
login ==
    \E username \in LoginNames, password \in LoginPasswords :
        /\ scorer_calls' = <<>>
        /\ UNCHANGED <<users, entries, next_id, today, pending, added, analysis_vars>>
        /\ IF Falsy(username) \/ Falsy(password)
           THEN /\ Answer("login", 400, "Username and password are required!")
                /\ client' = client
           ELSE \E c \in ensure_client :
                /\ client' = c
                /\ IF NoCollection(c)
                   THEN Unavailable("login", c)
                   ELSE \E found \in BOOLEAN :
                        LET user == find_one(users, username, username)
                        IN  IF ~found
                            THEN Answer("login", 500, "PyMongoError")
                            ELSE IF user = NoDocument
                            THEN Answer("login", 401, "Invalid username or password!")
                            ELSE IF password # user.password
                            THEN Answer("login", 401, "Invalid username or password!")
                            ELSE Answer("login", 200,
                                        [token |-> generate_token(user._id),
                                         username |-> user.username,
                                         email |-> user.email])

\* app.py:144-166: register, up to its find_one
register_find ==
    \E data \in RegisterForms :
      LET username == data.username
          email == data.email
          password == data.password
      IN
        /\ next_id + BagCardinality(pending) <= MaxId
        /\ BagCardinality(pending) < MaxPending
        /\ scorer_calls' = <<>>
        /\ UNCHANGED <<users, entries, next_id, today, added, analysis_vars>>
        /\ IF Falsy(username) \/ Falsy(email) \/ Falsy(password)
           THEN /\ Answer("register", 400,
                          "Username, email, and password are required!")
                /\ UNCHANGED <<client, pending>>
           ELSE \E c \in ensure_client :
                /\ client' = c
                /\ IF NoCollection(c)
                   THEN /\ Unavailable("register", c)
                        /\ UNCHANGED pending
                   ELSE \E found \in BOOLEAN :
                        IF ~found
                        THEN /\ Answer("register", 500, "PyMongoError")
                             /\ UNCHANGED pending
                        ELSE IF find_one(users, username, email) # NoDocument
                        THEN /\ Answer("register", 409,
                                       "Username or email already exists!")
                             /\ UNCHANGED pending
                        ELSE /\ op' = "register"
                             /\ response' = NoResponse
                             /\ pending' = pending (+) SetToBag(
                                    {[handler |-> "register",
                                      new_user |-> [username |-> username,
                                                    email |-> email,
                                                    password |-> password]]})

\* app.py:168-177: register, from its insert_one
register_insert ==
    \E p \in BagToSet(pending) :
        /\ p.handler = "register"
        /\ pending' = pending (-) SetToBag({p})
        /\ scorer_calls' = <<>>
        /\ UNCHANGED <<client, entries, today, added, analysis_vars>>
        /\ \E inserted \in BOOLEAN :
           IF inserted
           THEN /\ users' = insert_one(users, p.new_user, next_id)
                /\ next_id' = next_id + 1
                /\ Answer("register", 201,
                          [id |-> next_id, username |-> p.new_user.username,
                           email |-> p.new_user.email])
           ELSE /\ Answer("register", 500, "PyMongoError")
                /\ UNCHANGED <<users, next_id>>

\* app.py:187-197
get_entries ==
    /\ scorer_calls' = <<>>
    /\ UNCHANGED <<users, entries, next_id, today, pending, added, analysis_vars>>
    /\ \E c \in ensure_client :
        /\ client' = c
        /\ IF NoCollection(c)
           THEN Unavailable("get_entries", c)
           ELSE \E found \in BOOLEAN :
                IF found
                THEN Answer("get_entries", 200,
                            [entries |-> find_newest_first(entries)])
                ELSE Answer("get_entries", 503, "Database error")

\* app.py:199-211: add_entry, up to its insert_one
add_entry_insert ==
    \E entry_text \in EntryTexts :
        /\ next_id + BagCardinality(pending) <= MaxId
        /\ BagCardinality(pending) < MaxPending
        /\ scorer_calls' = <<>>
        /\ UNCHANGED <<users, today, analysis_vars>>
        /\ \E c \in ensure_client :
            /\ client' = c
            /\ IF NoCollection(c)
               THEN /\ Unavailable("add_entry", c)
                    /\ UNCHANGED <<entries, next_id, pending, added>>
               ELSE LET date_str == strftime(today)
                        new_entry == [date |-> date_str, entry |-> entry_text]
                    IN  \E inserted \in BOOLEAN :
                        IF inserted
                        THEN /\ entries' = insert_one(entries, new_entry, next_id)
                             /\ next_id' = next_id + 1
                             /\ added' = Append(added, new_entry)
                             /\ op' = "add_entry"
                             /\ response' = NoResponse
                             /\ pending' = pending (+) SetToBag(
                                    {[handler |-> "add_entry"]})
                        ELSE /\ Answer("add_entry", 503, "Database error")
                             /\ UNCHANGED <<entries, next_id, pending, added>>

\* app.py:212-216: add_entry, from its find
add_entry_find ==
    \E p \in BagToSet(pending) :
        /\ p.handler = "add_entry"
        /\ pending' = pending (-) SetToBag({p})
        /\ scorer_calls' = <<>>
        /\ UNCHANGED <<client, users, entries, next_id, today, added, analysis_vars>>
        /\ \E found \in BOOLEAN :
           IF found
           THEN Answer("add_entry", 200,
                       [message |-> "Entry added successfully!",
                        entries |-> find_newest_first(entries)])
           ELSE Answer("add_entry", 503, "Database error")

\* the texts of the entries, as [entry['entry'] for entry in entries]
entry_texts(docs) == [i \in DOMAIN docs |-> docs[i].entry]

\* the rest of a sentiment handler once it has its entries: nothing to
\* score, a join that raises TypeError on a missing text, or the score of
\* the joined texts.  `each` says whether every entry is scored first, as in
\* app.py:339-345, where a scorer that raises is passed over.
ScoreJoined(handler, docs, each, empty_message, period) ==
    IF docs = <<>>
    THEN /\ Answer(handler, 200, [message |-> empty_message])
         /\ scorer_calls' = <<>>
    ELSE LET first == IF each THEN entry_texts(docs) ELSE <<>>
         IN  IF None \in Range(entry_texts(docs))
             THEN /\ Answer(handler, 500, "TypeError")
                  /\ scorer_calls' = first
             ELSE /\ Answer(handler, 200,
                            [sentiment |->
                                 polarity_scores(PyJoin(" ", entry_texts(docs))),
                             period |-> period,
                             daily_data |-> IF each
                                            THEN {date_part(docs[i].date) :
                                                      i \in DOMAIN docs}
                                            ELSE {}])
                  /\ scorer_calls' =
                         Append(first, PyJoin(" ", entry_texts(docs)))

\* a handler that reads the entries and scores the selected ones
SentimentOf(handler, selected, each, empty_message, period) ==
    /\ UNCHANGED <<users, entries, next_id, today, pending, added, analysis_vars>>
    /\ \E c \in ensure_client :
        /\ client' = c
        /\ IF NoCollection(c)
           THEN /\ Unavailable(handler, c)
                /\ scorer_calls' = <<>>
           ELSE \E found \in BOOLEAN :
                IF found
                THEN ScoreJoined(handler, selected, each, empty_message, period)
                ELSE /\ Answer(handler, 503, "Database error")
                     /\ scorer_calls' = <<>>

\* app.py:218-235
get_sentiment ==
    SentimentOf("get_sentiment", find_all(entries), FALSE,
                "No entries available for sentiment analysis.", None)

\* app.py:289-308
get_daily_sentiment ==
    SentimentOf("get_daily_sentiment",
                SelectSeq(find_all(entries), LAMBDA e : e.date = strftime(today)),
                FALSE, "No entries available for today.", "daily")

\* app.py:310-355
get_weekly_sentiment ==
    SentimentOf("get_weekly_sentiment", dated_within(find_all(entries), 7),
                TRUE, "No entries available for the past week.", "weekly")

\* app.py:357-402
get_monthly_sentiment ==
    SentimentOf("get_monthly_sentiment", dated_within(find_all(entries), 30),
                TRUE, "No entries available for the past month.", "monthly")

\* app.py:423-435: the counts of the compound scores
sentiment_counts(scores) ==
    [happy |-> Cardinality({i \in DOMAIN scores : scores[i] > 0}),
     neutral |-> Cardinality({i \in DOMAIN scores : scores[i] = 0}),
     sad |-> Cardinality({i \in DOMAIN scores : scores[i] < 0})]

\* app.py:404-437
get_sentiment_counts ==
    /\ UNCHANGED <<users, entries, next_id, today, pending, added, analysis_vars>>
    /\ \E c \in ensure_client :
        /\ client' = c
        /\ IF NoCollection(c)
           THEN /\ Unavailable("get_sentiment_counts", c)
                /\ scorer_calls' = <<>>
           ELSE \E found \in BOOLEAN :
                LET docs == find_all(entries)
                    texts == entry_texts(docs)
                IN  IF ~found
                    THEN /\ Answer("get_sentiment_counts", 503, "Database error")
                         /\ scorer_calls' = <<>>
                    ELSE IF None \in Range(texts)
                    THEN \* the scorer raises on the first missing text
                         LET i == CHOOSE i \in DOMAIN texts :
                                      /\ texts[i] = None
                                      /\ \A j \in 1..(i - 1) : texts[j] # None
                         IN  /\ Answer("get_sentiment_counts", 500, "AttributeError")
                             /\ scorer_calls' = SubSeq(texts, 1, i)
                    ELSE \E compound_of \in [Range(texts) -> ScorerSamples] :
                         /\ Answer("get_sentiment_counts", 200,
                                   [counts |-> sentiment_counts(
                                        [i \in DOMAIN texts |-> compound_of[texts[i]]])])
                         /\ scorer_calls' = texts

\* app.py:244-276: the analysis of a text the scorer gave compound c
comprehensive_analysis(entry_text, c) ==
    LET e == get_custom_emotion(entry_text)
        patterns == identify_mental_patterns(entry_text)
    IN  [overall_sentiment |-> [category |-> get_sentiment_category(c),
                                intensity |-> get_sentiment_intensity(c)],
         emotions |-> e,
         highlights |-> extract_highlights(entry_text),
         mental_patterns |-> patterns,
         strengths |-> identify_strengths(entry_text),
         suggestions |-> generate_suggestions(c, e, patterns),
         summary |-> generate_summary(c, e),
         trend_insight |-> "Not enough data for trend analysis yet."]

\* the analyses of the texts a request may carry, computed once
analyses ==
    [t \in {t \in EntryTexts : ~Falsy(t)} |->
        [c \in ScorerSamples |-> comprehensive_analysis(t, c)]]

\* app.py:237-278
get_comprehensive_analysis ==
    \E entry_text \in EntryTexts :
        /\ UNCHANGED <<store_vars, pending, added, analysis_vars>>
        /\ IF Falsy(entry_text)
           THEN /\ Answer("get_comprehensive_analysis", 200,
                          [message |-> "No entry provided for analysis."])
                /\ scorer_calls' = <<>>
           ELSE \E score \in ScorerSamples :
                /\ Answer("get_comprehensive_analysis", 200,
                          analyses[entry_text][score])
                /\ scorer_calls' = <<entry_text>>

\* app.py:280-287
get_current_entry_sentiment ==
    \E entry_text \in EntryTexts :
        /\ UNCHANGED <<store_vars, pending, added, analysis_vars>>
        /\ IF Falsy(entry_text)
           THEN /\ Answer("get_current_entry_sentiment", 200,
                          [message |-> "No entry provided for sentiment analysis."])
                /\ scorer_calls' = <<>>
           ELSE /\ Answer("get_current_entry_sentiment", 200,
                          [sentiment |-> polarity_scores(entry_text)])
                /\ scorer_calls' = <<entry_text>>

\* app.py:439-449
clear_entries ==
    /\ scorer_calls' = <<>>
    /\ UNCHANGED <<users, next_id, today, pending, analysis_vars>>
    /\ \E c \in ensure_client :
        /\ client' = c
        /\ IF NoCollection(c)
           THEN /\ Unavailable("clear_entries", c)
                /\ UNCHANGED <<entries, added>>
           ELSE \E deleted \in BOOLEAN :
                IF deleted
                THEN /\ entries' = delete_many(entries)
                     /\ added' = <<>>
                     /\ Answer("clear_entries", 200, "Diary entries cleared!")
                ELSE /\ Answer("clear_entries", 503, "Database error")
                     /\ UNCHANGED <<entries, added>>

\* midnight: datetime.date.today() moves on
Midnight ==
    /\ today + 1 < Len(Calendar)
    /\ today' = today + 1
    /\ op' = "midnight"
    /\ response' = NoResponse
    /\ scorer_calls' = <<>>
    /\ UNCHANGED <<client, users, entries, next_id, pending, added, analysis_vars>>

Init == StoreInit /\ RequestInit /\ AnalysisInit

Next ==
    \/ login
    \/ register_find
    \/ register_insert
    \/ get_entries
    \/ add_entry_insert
    \/ add_entry_find
    \/ get_sentiment
    \/ get_comprehensive_analysis
    \/ get_current_entry_sentiment
    \/ get_daily_sentiment
    \/ get_weekly_sentiment
    \/ get_monthly_sentiment
    \/ get_sentiment_counts
    \/ clear_entries
    \/ Midnight

Spec == Init /\ [][Next]_vars

(***************************************************************************)
(* The claims                                                              *)
(***************************************************************************)

\* C4: for every compound score in [-1, 1] the category is Positive iff
\* compound >= 0.05 (a twentieth), Negative iff compound <= -0.05 and Neutral
\* otherwise, and the intensity is Strong iff abs(compound) >= 0.5, Moderate
\* iff 0.1 <= abs(compound) < 0.5 and Mild otherwise; the thresholds
\* themselves are Positive, Negative, Strong and Moderate.
CategoryAndIntensityThresholds ==
    stage = "done" =>
        /\ category = "Positive" <=> 20 * compound >= CompoundScale
        /\ category = "Negative" <=> 20 * compound <= 0 - CompoundScale
        /\ category = "Neutral" <=>
               (20 * compound < CompoundScale /\ 20 * compound > 0 - CompoundScale)
        /\ intensity = "Strong" <=> 2 * Abs(compound) >= CompoundScale
        /\ intensity = "Moderate" <=>
               (10 * Abs(compound) >= CompoundScale /\ 2 * Abs(compound) < CompoundScale)
        /\ intensity = "Mild" <=> 10 * Abs(compound) < CompoundScale

\* the score -0.05 has been categorised: Negative, and Mild
ThresholdCategorised ==
    /\ stage = "done"
    /\ 20 * compound = 0 - CompoundScale
    /\ category = "Negative"
    /\ intensity = "Mild"

EmotionKeywords ==
    Range(happy_keywords) \cup Range(angry_keywords) \cup Range(surprise_keywords)
        \cup Range(sad_keywords) \cup Range(fear_keywords)

\* C5: the five values of get_custom_emotion are non-negative integers, and
\* all five are 0 iff no keyword of the five lists occurs in the case-folded
\* text.
EmotionsZeroIffNoKeyword ==
    stage = "done" =>
        /\ \A k \in Range(emotion_keys) : emotions[k] \in Nat
        /\ (\A k \in Range(emotion_keys) : emotions[k] = 0)
               <=> ~\E w \in EmotionKeywords : PyIn(w, PyLower(text))

\* a text whose only keyword is found by case folding has been analysed
CapitalisedKeywordCounted ==
    /\ stage = "done"
    /\ text = "Happy calm"
    /\ emotions["Happy"] = 100

PercentageSum ==
    emotions["Happy"] + emotions["Angry"] + emotions["Surprise"]
        + emotions["Sad"] + emotions["Fear"]

KeywordsFound ==
    counts["Happy"] + counts["Angry"] + counts["Surprise"]
        + counts["Sad"] + counts["Fear"] > 0

\* C6, as claimed: whenever a keyword is found the five percentages sum to
\* 99, 100 or 101.
PercentagesSum99To101 ==
    (stage = "done" /\ KeywordsFound) => PercentageSum \in 99..101

\* C6, amended: whenever a keyword is found the five percentages, each
\* rounded on its own (halves to even), sum to 98, 99, 100, 101 or 102, for
\* every combination of counts the keyword lists allow.
PercentagesSum98To102 ==
    (stage = "done" /\ KeywordsFound) => PercentageSum \in 98..102

\* four counts of one in a total of eight: four halves rounded down
FourHalvesRoundedDown ==
    /\ stage = "done"
    /\ counts = [Happy |-> 4, Angry |-> 1, Surprise |-> 1, Sad |-> 1, Fear |-> 1]
    /\ PercentageSum = 98

\* the bodies longer than 10 characters, in the order they were written
Qualifying == SelectSeq(bodies, LAMBDA b : Len(b) > 10)

\* C7: with n the number of segments whose trimmed length is over 10,
\* extract_highlights returns the empty list when n < 3, all n of them in
\* order when 3 <= n <= 7, and the first 7 in order when n > 7; every segment
\* returned is trimmed and longer than 10 characters.
HighlightsShape ==
    stage = "done" =>
        /\ Len(Qualifying) < 3 => highlights = <<>>
        /\ (Len(Qualifying) >= 3 /\ Len(Qualifying) <= 7) => highlights = Qualifying
        /\ Len(Qualifying) > 7 => highlights = SubSeq(Qualifying, 1, 7)
        /\ \A i \in DOMAIN highlights :
               /\ Len(highlights[i]) > 10
               /\ CharAt(highlights[i], 1) \notin WhiteSpace
               /\ CharAt(highlights[i], Len(highlights[i])) \notin WhiteSpace

\* a text of more than 7 qualifying segments has been cut to its first 7
EighthSegmentDropped ==
    /\ stage = "done"
    /\ Len(Qualifying) > 7
    /\ Len(highlights) = 7
    /\ highlights[7] = bodies[7]

MentalPatternOrder ==
    <<"Stress", "Overthinking", "Motivation", "Avoidance", "Self-criticism",
      "Confidence", "Relationship concerns", "Fatigue", "Productivity">>

StrengthOrder ==
    <<"Effort", "Honesty", "Resilience", "Discipline", "Responsibility",
      "Empathy", "Self-awareness">>

\* the keyword check of each tag, on the case-folded text
PatternCheck(tag, text_lower) ==
    CASE tag = "Stress" -> AnyKeyword(stress_keywords, text_lower)
      [] tag = "Overthinking" ->
             PyCount(text_lower, "think") > 3
                 \/ AnyKeyword(overthinking_keywords, text_lower)
      [] tag = "Motivation" -> AnyKeyword(motivation_keywords, text_lower)
      [] tag = "Avoidance" -> AnyKeyword(avoidance_keywords, text_lower)
      [] tag = "Self-criticism" -> AnyKeyword(self_criticism_keywords, text_lower)
      [] tag = "Confidence" -> AnyKeyword(confidence_keywords, text_lower)
      [] tag = "Relationship concerns" ->
             AnyKeyword(relationship_keywords, text_lower)
      [] tag = "Fatigue" -> AnyKeyword(fatigue_keywords, text_lower)
      [] tag = "Productivity" -> AnyKeyword(productivity_keywords, text_lower)
      [] tag = "Effort" -> AnyKeyword(effort_keywords, text_lower)
      [] tag = "Honesty" -> AnyKeyword(honesty_keywords, text_lower)
      [] tag = "Resilience" -> AnyKeyword(resilience_keywords, text_lower)
      [] tag = "Discipline" -> AnyKeyword(discipline_keywords, text_lower)
      [] tag = "Responsibility" -> AnyKeyword(responsibility_keywords, text_lower)
      [] tag = "Empathy" -> AnyKeyword(empathy_keywords, text_lower)
      [] tag = "Self-awareness" -> AnyKeyword(self_awareness_keywords, text_lower)

\* lst holds exactly the tags of order whose check is true, once each, in
\* order's order
TagsInOrder(lst, order, text_lower) ==
    /\ NoDuplicates(lst)
    /\ lst = SelectIn(order, Range(lst))
    /\ \A tag \in Range(order) : tag \in Range(lst) <=> PatternCheck(tag, text_lower)

OneToneSentenceFirst ==
    stage = "done" =>
        /\ suggestions # <<>>
        /\ suggestions[1] =
               (IF 10 * compound < 0 - 3 * CompoundScale THEN ToughTime
                ELSE IF 10 * compound > 3 * CompoundScale THEN PositiveHeadspace
                ELSE BalancedState)
        /\ Cardinality({i \in DOMAIN suggestions : suggestions[i] \in tone_sentences}) = 1

\* the score -0.3 has been given the balanced tone, with more suggestions
\* after it
ThresholdToneBalanced ==
    /\ stage = "done"
    /\ 10 * compound = 0 - 3 * CompoundScale
    /\ suggestions[1] = BalancedState
    /\ Len(suggestions) > 2

\* C1: no two stored users share a username and no two share an email, after
\* any register requests, also when the find_one of one falls between the
\* find_one and the insert_one of another.
UsersUnique ==
    \A i, j \in DOMAIN users :
        i # j => /\ users[i].username # users[j].username
                 /\ users[i].email # users[j].email

Reverse(lst) == [i \in DOMAIN lst |-> lst[Len(lst) + 1 - i]]

\* C2: the list get_entries returns, and the list in add_entry's response,
\* holds exactly the entries added since the last clear, the most recently
\* added first.
EntriesNewestFirst ==
    (op \in {"get_entries", "add_entry"} /\ response.status = 200)
        => response.body.entries = Reverse(added)

\* add_entry has answered with two different entries, the newer one first
TwoEntriesListed ==
    /\ op = "add_entry"
    /\ response.status = 200
    /\ Len(response.body.entries) = 2
    /\ response.body.entries[1].entry # response.body.entries[2].entry
    /\ response.body.entries[1] = added[2]

\* C3: the entry store changes only through add_entry and clear_entries: an
\* add_entry whose insert succeeds adds exactly one entry after the existing
\* ones and leaves them as they were, a successful clear_entries removes
\* every entry, and every other step of every handler leaves the store as it
\* was.
EntryStoreFrame ==
    [][ /\ (op' = "add_entry" /\ response' = NoResponse) =>
               /\ Len(entries') = Len(entries) + 1
               /\ SubSeq(entries', 1, Len(entries)) = entries
        /\ (op' = "clear_entries" /\ response'.status = 200) => entries' = <<>>
        /\ ( /\ ~(op' = "add_entry" /\ response' = NoResponse)
             /\ ~(op' = "clear_entries" /\ response'.status = 200) )
               => entries' = entries
      ]_vars

\* add_entry has inserted a second entry
SecondEntryInserted ==
    /\ op = "add_entry"
    /\ response = NoResponse
    /\ Len(entries) = 2

\* C10: an empty or missing entry text never reaches the polarity scorer,
\* neither straight from a request nor from the entry store.
EmptyTextNeverScored ==
    \A i \in DOMAIN scorer_calls : ~Falsy(scorer_calls[i])

(***************************************************************************)
(* The emotion sentence of generate_suggestions                            *)
(***************************************************************************)
FixedOrder == <<"Happy", "Angry", "Surprise", "Sad", "Fear">>

\* the first category, in the fixed order, that has the highest percentage
FirstHighest(e) ==
    FixedOrder[CHOOSE i \in DOMAIN FixedOrder :
        /\ \A j \in DOMAIN FixedOrder : e[FixedOrder[j]] <= e[FixedOrder[i]]
        /\ \A j \in 1..(i - 1) : e[FixedOrder[j]] < e[FixedOrder[i]]]

EmotionSentences ==
    {HappySentence, SadSentence, AngerSentence, FearSentence, SurpriseSentence}

SentenceKeyedTo ==
    [Happy |-> HappySentence, Sad |-> SadSentence, Fear |-> FearSentence,
     Surprise |-> SurpriseSentence]

\* C11: the dominant emotion of generate_suggestions is the first category in
\* the order Happy, Angry, Surprise, Sad, Fear with the highest percentage
\* (Happy when all are 0); above 30 exactly one emotion sentence, the one
\* keyed to it, is appended for Happy, Sad, Fear and Surprise and none for
\* Angry; at 30 or less none is appended
DominantEmotionSentence ==
    stage = "done" =>
        LET d == FirstHighest(emotions)
            appended == SelectSeq(suggestions, LAMBDA s : s \in EmotionSentences)
        IN  /\ (\A k \in DOMAIN emotions : emotions[k] = 0) => d = "Happy"
            /\ emotions[d] > 30 /\ d \in DOMAIN SentenceKeyedTo
                   => /\ appended = <<SentenceKeyedTo[d]>>
                      /\ suggestions[2] = SentenceKeyedTo[d]
            /\ emotions[d] > 30 /\ d = "Angry" => appended = <<>>
            /\ emotions[d] <= 30 => appended = <<>>

\* anger ties with surprise above 30, comes first, and gets no sentence
AngryDominantUnadvised ==
    /\ stage = "done"
    /\ emotions.Angry = 50 /\ emotions.Surprise = 50
    /\ \A i \in DOMAIN suggestions : suggestions[i] \notin EmotionSentences
    /\ Len(suggestions) = 3

(***************************************************************************)
(* The summary of generate_summary                                         *)
(***************************************************************************)
LowerCategory ==
    [Positive |-> "positive", Negative |-> "negative", Neutral |-> "neutral"]

LowerEmotion ==
    [Happy |-> "happy", Angry |-> "angry", Surprise |-> "surprise",
     Sad |-> "sad", Fear |-> "fear"]

HighestPercentage(e) ==
    CHOOSE m \in {e[k] : k \in DOMAIN e} : \A k \in DOMAIN e : e[k] <= m

DominatedSummary(cat, emotion) ==
    "A " \o LowerCategory[cat] \o " entry dominated by " \o LowerEmotion[emotion]
    \o " emotions."

MixedSummary(cat) ==
    "A generally " \o LowerCategory[cat] \o " entry with mixed emotional tones."

\* C12: generate_summary returns "A {category} entry dominated by {emotion}
\* emotions.", lower-cased, with the category of get_sentiment_category and
\* the dominant emotion, if and only if the highest percentage is greater
\* than 50, and "A generally {category} entry with mixed emotional tones."
\* otherwise; an all-zero and a 50/50 distribution give the mixed summary
SummaryByHighestPercentage ==
    stage = "done" =>
        LET dominated == DominatedSummary(category, FirstHighest(emotions))
            mixed == MixedSummary(category)
        IN  /\ summary = dominated <=> HighestPercentage(emotions) > 50
            /\ summary = mixed <=> HighestPercentage(emotions) <= 50
            /\ HighestPercentage(emotions) \in {0, 50} => summary = mixed

\* two emotions share the keywords half and half
HalfAndHalfMixed ==
    /\ stage = "done"
    /\ emotions.Happy = 50 /\ emotions.Sad = 50
    /\ category = "Negative"
    /\ summary = "A generally negative entry with mixed emotional tones."

(***************************************************************************)
(* The overthinking test of identify_mental_patterns                       *)
(***************************************************************************)
OverthinkingSubstrings ==
    {"think", "thinking", "thought", "wonder", "wondering", "contemplate"}

\* where sub starts in s
Occurrences(s, sub) ==
    {i \in 1..(Len(s) - Len(sub) + 1) : SubSeq(s, i, i + Len(sub) - 1) = sub}

\* C14: identify_mental_patterns includes Overthinking if and only if the
\* case-folded text contains one of think, thinking, thought, wonder,
\* wondering, contemplate; the test for more than 3 occurrences of "think"
\* never changes the outcome, so one occurrence is tagged like four or more
OverthinkingIffKeyword ==
    stage = "done" =>
        LET folded == PyLower(text)
            tagged == "Overthinking" \in Range(mental_patterns)
            keyword == \E k \in OverthinkingSubstrings : Occurrences(folded, k) # {}
            thinks == Cardinality(Occurrences(folded, "think"))
        IN  /\ tagged <=> keyword
            /\ thinks > 3 => keyword
            /\ thinks >= 1 => tagged

\* one "think", no other keyword, and the text is tagged
SingleThinkTagged ==
    /\ stage = "done"
    /\ Cardinality(Occurrences(PyLower(text), "think")) = 1
    /\ Occurrences(PyLower(text), "wonder") = {}
    /\ mental_patterns = <<"Overthinking">>

(***************************************************************************)
(* The endpoints while the database cannot be reached                      *)
(***************************************************************************)
StoreBacked ==
    {"login", "register", "get_entries", "add_entry", "clear_entries",
     "get_sentiment", "get_daily_sentiment", "get_weekly_sentiment",
     "get_monthly_sentiment", "get_sentiment_counts"}

\* C13: whenever the database connection cannot be established, every
\* store-backed endpoint answers 503 and leaves the user and entry stores
\* unchanged, and the cached client stays unset so that the next request
\* attempts the connection again; once a connection attempt succeeds the
\* cached client is never unset. A request fails for want of the database
\* when it ends in a server error and no ping has succeeded before or during
\* it.
UnavailableAnswers503 ==
    [][ /\ ( /\ op' \in StoreBacked
             /\ response'.status >= 500
             /\ client # "MongoClient"
             /\ client' # "MongoClient" )
               => /\ response'.status = 503
                  /\ users' = users
                  /\ entries' = entries
        /\ ( /\ op' \in StoreBacked
             /\ response'.status = 503
             /\ response'.body = "Database unavailable" )
               => client' = None
        /\ client = "MongoClient" => client' = "MongoClient"
      ]_vars

====
